---------------------------- MODULE Spec2Model ----------------------------
(***************************************************************************)
(* Model of the connection monitor of src/main.go: the initial probe, the  *)
(* select loop over the ticker and the signal channel, the uptime /        *)
(* downtime / latency accounting, the status display and the summary.      *)
(*                                                                         *)
(* Time is a discrete clock.  One clock unit is 1/Second of a second; the  *)
(* Go durations (nanoseconds) are scaled to that resolution.  A select     *)
(* with a ready case proceeds before the clock advances; the only places   *)
(* where time passes are the HTTP request and the blocked select.          *)
(***************************************************************************)
EXTENDS Integers, Sequences, FiniteSets, TLC

\* ------------------------------------------------------------------ bounds
\* clock units per second (resolution of the model's clock)
Second == 2
\* the clock stops advancing here
MaxTime == 12
\* largest number of probes (the initial one included) in one run
MaxProbes == 4
\* largest whole hour among the arguments given to formatDuration in SpecFmt
FmtMaxHours == 2

\* ------------------------------------------------------- program constants
Minute == 60 * Second
Hour == 60 * Minute
\* defaults of the -interval and -timeout flags
defaultCheckInterval == 2 * Second
defaultTimeout == 5 * Second
checkInterval == defaultCheckInterval
timeout == defaultTimeout

VARIABLES
    pc,               \* "init": initial probe in flight; "wait": blocked in select;
                      \* "probe": a tick's probe in flight; "done": main returned
    clock,            \* the wall clock (time.Now)
    nextTick,         \* when the ticker fires next
    tickPending,      \* ticker.C (capacity 1) holds a tick
    sigPending,       \* sigChan (capacity 1) holds a signal
    probeStart,       \* start of the request in flight (checkConnection's start)
    lastStatus, statusChangeTime, downtime, uptime,
    minLatency, maxLatency, totalLatency, latencyCount,
    screen,           \* the terminal rows displayStatus writes (rows 4 and 6)
    summary,          \* the lines printed by the interrupt case
    probeLog,         \* history: one record per completed probe
    ticks,            \* history: number of receives from ticker.C
    sigTime,          \* history: clock when the signal arrived, -1 before
    sigAt,            \* history: pc when the signal arrived
    doneTime,         \* history: clock when main returned, -1 before
    fmtArg, fmtRet,   \* argument and result of a formatDuration call (SpecFmt)
    chkArg, chkRet    \* arguments and result of a checkConnection call (SpecProbe)

monitor == <<lastStatus, statusChangeTime, downtime, uptime>>
latencyStats == <<minLatency, maxLatency, totalLatency, latencyCount>>
calls == <<fmtArg, fmtRet, chkArg, chkRet>>
vars == <<pc, clock, nextTick, tickPending, sigPending, probeStart, monitor,
          latencyStats, screen, summary, probeLog, ticks, sigTime, sigAt, doneTime, calls>>

\* ------------------------------------------------------------ Go arithmetic
\* Go's integer division and remainder truncate toward zero (b > 0 here)
Quot(a, b) == IF a >= 0 THEN a \div b ELSE -((-a) \div b)
Rem(a, b) == a - b * Quot(a, b)

\* time.Duration.Round: nearest multiple of m, halfway values away from zero
DurationRound(d, m) ==
    IF m <= 0 THEN d
    ELSE LET r == Rem(d, m) IN
         IF d < 0
         THEN IF (-r) + (-r) < m THEN d + (-r) ELSE d - m + (-r)
         ELSE IF r + r < m THEN d - r ELSE d + m - r

\* ------------------------------------------------------------ formatDuration
\* variant: the seconds are truncated instead of rounded
formatDurationTrunc(d) ==
    LET d0 == d - Rem(d, Second)
        h == Quot(d0, Hour)
        d1 == d0 - h * Hour
        m == Quot(d1, Minute)
        d2 == d1 - m * Minute
        s == Quot(d2, Second)
    IN IF h > 0 THEN ToString(h) \o "h " \o ToString(m) \o "m " \o ToString(s) \o "s"
       ELSE IF m > 0 THEN ToString(m) \o "m " \o ToString(s) \o "s"
       ELSE ToString(s) \o "s"

formatDuration(d) ==
    LET d0 == DurationRound(d, Second)
        h == Quot(d0, Hour)
        d1 == d0 - h * Hour
        m == Quot(d1, Minute)
        d2 == d1 - m * Minute
        s == Quot(d2, Second)
    IN IF h > 0 THEN ToString(h) \o "h " \o ToString(m) \o "m " \o ToString(s) \o "s"
       ELSE IF m > 0 THEN ToString(m) \o "m " \o ToString(s) \o "s"
       ELSE ToString(s) \o "s"

\* ----------------------------------------------------------- checkConnection
\* variant: the upper end of the status range is included
checkConnectionUpTo300(err, statusCode, elapsed) ==
    IF err THEN <<FALSE, 0>>
    ELSE <<statusCode >= 200 /\ statusCode <= 300, elapsed>>

\* err: client.Get returned an error (network error or client timeout);
\* statusCode: the response's status; elapsed: time.Since(start).
checkConnection(err, statusCode, elapsed) ==
    IF err THEN <<FALSE, 0>>
    ELSE <<statusCode >= 200 /\ statusCode < 300, elapsed>>

\* the outcomes of one request that has been in flight for `elapsed`: the
\* client's Timeout turns a request that reaches it into an error
StatusCodes == {200, 404}
Outcomes(elapsed) ==
    {o \in [err : BOOLEAN, statusCode : StatusCodes] :
        /\ (elapsed >= timeout => o.err)
        /\ (o.err => o.statusCode = 200)}

\* ------------------------------------------------------------- displayStatus
ClearedScreen == [row4 |-> [status |-> "", duration |-> ""],
                  row6 |-> [shown |-> FALSE, latency |-> 0]]

displayStatus(connected, duration, latency) ==
    [row4 |-> [status |-> IF connected THEN "CONNECTED" ELSE "DISCONNECTED",
               duration |-> IF duration > 0 THEN formatDuration(duration) ELSE ""],
     row6 |-> IF connected
              THEN [shown |-> TRUE, latency |-> latency]
              ELSE screen.row6]

\* ---------------------------------------------------------------- accounting
\* variant: the operands of Sub exchanged
ElapsedReversed(now) == statusChangeTime - now

\* duration := now.Sub(statusChangeTime)
Elapsed(now) == now - statusChangeTime

\* variant: the elapsed time goes to the status of the previous tick
NewUptimeByLastStatus(currentStatus, duration) ==
    IF lastStatus THEN uptime + duration ELSE uptime

\* if currentStatus { uptime += duration } else { downtime += duration }
NewUptime(currentStatus, duration) ==
    IF currentStatus THEN uptime + duration ELSE uptime

NewDowntime(currentStatus, duration) ==
    IF currentStatus THEN downtime ELSE downtime + duration

\* variant: the comparison that keeps the minimum is the wrong way round
NewLatencyStatsMinSwapped(currentStatus, latency) ==
    IF currentStatus /\ latency > 0
    THEN [minLatency |-> IF minLatency < 0 \/ latency > minLatency
                         THEN latency ELSE minLatency,
          maxLatency |-> IF latency > maxLatency THEN latency ELSE maxLatency,
          totalLatency |-> totalLatency + latency,
          latencyCount |-> latencyCount + 1]
    ELSE [minLatency |-> minLatency, maxLatency |-> maxLatency,
          totalLatency |-> totalLatency, latencyCount |-> latencyCount]

\* variant: the latency update is outside the `if currentStatus` branch
NewLatencyStatsAnyResponse(currentStatus, latency) ==
    IF latency > 0
    THEN [minLatency |-> IF minLatency < 0 \/ latency < minLatency
                         THEN latency ELSE minLatency,
          maxLatency |-> IF latency > maxLatency THEN latency ELSE maxLatency,
          totalLatency |-> totalLatency + latency,
          latencyCount |-> latencyCount + 1]
    ELSE [minLatency |-> minLatency, maxLatency |-> maxLatency,
          totalLatency |-> totalLatency, latencyCount |-> latencyCount]

\* variant: the minimum is compared without the test for the -1 sentinel
NewLatencyStatsNoSentinel(currentStatus, latency) ==
    IF currentStatus /\ latency > 0
    THEN [minLatency |-> IF latency < minLatency THEN latency ELSE minLatency,
          maxLatency |-> IF latency > maxLatency THEN latency ELSE maxLatency,
          totalLatency |-> totalLatency + latency,
          latencyCount |-> latencyCount + 1]
    ELSE [minLatency |-> minLatency, maxLatency |-> maxLatency,
          totalLatency |-> totalLatency, latencyCount |-> latencyCount]

\* the latency statistics after a tick
NewLatencyStats(currentStatus, latency) ==
    IF currentStatus /\ latency > 0
    THEN [minLatency |-> IF minLatency < 0 \/ latency < minLatency
                         THEN latency ELSE minLatency,
          maxLatency |-> IF latency > maxLatency THEN latency ELSE maxLatency,
          totalLatency |-> totalLatency + latency,
          latencyCount |-> latencyCount + 1]
    ELSE [minLatency |-> minLatency, maxLatency |-> maxLatency,
          totalLatency |-> totalLatency, latencyCount |-> latencyCount]

\* the latency statistics after the initial check
InitialLatencyStats(status, latency) ==
    IF status /\ latency > 0
    THEN [minLatency |-> latency, maxLatency |-> latency,
          totalLatency |-> latency, latencyCount |-> 1]
    ELSE [minLatency |-> minLatency, maxLatency |-> maxLatency,
          totalLatency |-> totalLatency, latencyCount |-> latencyCount]

\* variant: statusChangeTime moves only when the status changes
NewStatusChangeTimeOnChange(now, currentStatus) ==
    IF currentStatus # lastStatus THEN now ELSE statusChangeTime

\* statusChangeTime = now
NewStatusChangeTime(now, currentStatus) == now

\* variant: a failed probe ends the loop
AfterTickAbortOnFailure(currentStatus) == IF currentStatus THEN "wait" ELSE "done"

\* the for loop goes back to the select after a tick, whatever the probe gave
AfterTick(currentStatus) == "wait"

\* variant: the latency lines need two samples
SummaryLinesTwoSamples ==
    <<[label |-> "Exiting Connection Monitor", value |-> ""],
      [label |-> "Total uptime", value |-> formatDuration(uptime)],
      [label |-> "Total downtime", value |-> formatDuration(downtime)]>>
    \o (IF latencyCount > 1
        THEN <<[label |-> "Min latency", value |-> minLatency],
               [label |-> "Max latency", value |-> maxLatency],
               [label |-> "Avg latency", value |-> Quot(totalLatency, latencyCount)]>>
        ELSE <<>>)

\* the lines of the interrupt case
SummaryLines ==
    <<[label |-> "Exiting Connection Monitor", value |-> ""],
      [label |-> "Total uptime", value |-> formatDuration(uptime)],
      [label |-> "Total downtime", value |-> formatDuration(downtime)]>>
    \o (IF latencyCount > 0
        THEN <<[label |-> "Min latency", value |-> minLatency],
               [label |-> "Max latency", value |-> maxLatency],
               [label |-> "Avg latency", value |-> Quot(totalLatency, latencyCount)]>>
        ELSE <<>>)

\* ---------------------------------------------------------------------- Init
Init ==
    /\ pc = "init"
    /\ clock = 0
    /\ nextTick = checkInterval
    /\ tickPending = FALSE
    /\ sigPending = FALSE
    /\ probeStart = 0
    /\ lastStatus = FALSE
    /\ statusChangeTime = 0
    /\ downtime = 0
    /\ uptime = 0
    /\ minLatency = -1
    /\ maxLatency = 0
    /\ totalLatency = 0
    /\ latencyCount = 0
    /\ screen = ClearedScreen
    /\ summary = <<>>
    /\ probeLog = <<>>
    /\ ticks = 0
    /\ sigTime = -1
    /\ sigAt = ""
    /\ doneTime = -1
    /\ fmtArg = 0
    /\ fmtRet = ""
    /\ chkArg = <<>>
    /\ chkRet = <<>>

\* ------------------------------------------------------------------- actions
\* time passes: only while a request is in flight or the select is blocked
Advance ==
    /\ pc # "done"
    /\ clock < MaxTime
    /\ clock < nextTick
    /\ pc \in {"init", "probe"} => clock - probeStart < timeout
    /\ pc = "wait" => ~tickPending /\ ~sigPending
    /\ clock' = clock + 1
    /\ UNCHANGED <<pc, nextTick, tickPending, sigPending, probeStart, monitor,
                   latencyStats, screen, summary, probeLog, ticks, sigTime, sigAt,
                   doneTime, calls>>

\* the ticker fires; a tick is dropped when ticker.C is full
TickerFire ==
    /\ pc # "done"
    /\ clock = nextTick
    /\ tickPending' = TRUE
    /\ nextTick' = nextTick + checkInterval
    /\ UNCHANGED <<pc, clock, sigPending, probeStart, monitor, latencyStats,
                   screen, summary, probeLog, ticks, sigTime, sigAt, doneTime, calls>>

\* SIGINT or SIGTERM is delivered to sigChan
Signal ==
    /\ pc # "done"
    /\ sigTime = -1
    /\ sigPending' = TRUE
    /\ sigTime' = clock
    /\ sigAt' = pc
    /\ UNCHANGED <<pc, clock, nextTick, tickPending, probeStart, monitor,
                   latencyStats, screen, summary, probeLog, ticks, doneTime, calls>>

\* the initial status check completes
InitialCheck ==
    /\ pc = "init"
    /\ \E o \in Outcomes(clock - probeStart) :
         LET res == checkConnection(o.err, o.statusCode, clock - probeStart)
             status == res[1]
             latency == res[2]
             stats == InitialLatencyStats(status, latency)
         IN /\ lastStatus' = status
            /\ statusChangeTime' = clock
            /\ minLatency' = stats.minLatency
            /\ maxLatency' = stats.maxLatency
            /\ totalLatency' = stats.totalLatency
            /\ latencyCount' = stats.latencyCount
            /\ screen' = displayStatus(status, 0, latency)
            /\ probeLog' = Append(probeLog,
                 [reachable |-> status, latency |-> latency, now |-> clock])
    /\ pc' = "wait"
    /\ UNCHANGED <<clock, nextTick, tickPending, sigPending, probeStart, downtime,
                   uptime, summary, ticks, sigTime, sigAt, doneTime, calls>>

\* variant: the tick is received and its request sent while the previous
\* request is still in flight (the handler started as a goroutine)
TickBeginConcurrent ==
    /\ pc \in {"wait", "probe"}
    /\ tickPending
    /\ Len(probeLog) < MaxProbes
    /\ tickPending' = FALSE
    /\ pc' = "probe"
    /\ probeStart' = clock
    /\ ticks' = ticks + 1
    /\ UNCHANGED <<clock, nextTick, sigPending, monitor, latencyStats, screen,
                   summary, probeLog, sigTime, sigAt, doneTime, calls>>

\* select receives from ticker.C and the tick's request is sent
TickBegin ==
    /\ pc = "wait"
    /\ tickPending
    /\ Len(probeLog) < MaxProbes
    /\ tickPending' = FALSE
    /\ pc' = "probe"
    /\ probeStart' = clock
    /\ ticks' = ticks + 1
    /\ UNCHANGED <<clock, nextTick, sigPending, monitor, latencyStats, screen,
                   summary, probeLog, sigTime, sigAt, doneTime, calls>>

\* the tick's request completes: accounting and display
TickEnd ==
    /\ pc = "probe"
    /\ \E o \in Outcomes(clock - probeStart) :
         LET res == checkConnection(o.err, o.statusCode, clock - probeStart)
             currentStatus == res[1]
             latency == res[2]
             now == clock
             duration == Elapsed(now)
             stats == NewLatencyStats(currentStatus, latency)
         IN /\ uptime' = NewUptime(currentStatus, duration)
            /\ downtime' = NewDowntime(currentStatus, duration)
            /\ minLatency' = stats.minLatency
            /\ maxLatency' = stats.maxLatency
            /\ totalLatency' = stats.totalLatency
            /\ latencyCount' = stats.latencyCount
            /\ statusChangeTime' = NewStatusChangeTime(now, currentStatus)
            /\ lastStatus' = IF currentStatus # lastStatus THEN currentStatus
                             ELSE lastStatus
            /\ screen' = displayStatus(currentStatus, duration, latency)
            /\ probeLog' = Append(probeLog,
                 [reachable |-> currentStatus, latency |-> latency, now |-> now])
            /\ pc' = AfterTick(currentStatus)
    /\ UNCHANGED <<clock, nextTick, tickPending, sigPending, probeStart, summary,
                   ticks, sigTime, sigAt, doneTime, calls>>

\* variant: the interrupt case accounts the time since the last tick
HandleInterruptAccounting ==
    /\ pc = "wait"
    /\ sigPending
    /\ sigPending' = FALSE
    /\ uptime' = IF lastStatus THEN uptime + (clock - statusChangeTime) ELSE uptime
    /\ downtime' = IF lastStatus THEN downtime
                   ELSE downtime + (clock - statusChangeTime)
    /\ statusChangeTime' = clock
    /\ summary' = summary \o SummaryLines
    /\ pc' = "done"
    /\ doneTime' = clock
    /\ UNCHANGED <<clock, nextTick, tickPending, probeStart, lastStatus,
                   latencyStats, screen, probeLog, ticks, sigTime, sigAt, calls>>

\* variant: the interrupt case leaves the select but not the loop
HandleInterruptNoReturn ==
    /\ pc = "wait"
    /\ sigPending
    /\ sigPending' = FALSE
    /\ summary' = summary \o SummaryLines
    /\ pc' = "wait"
    /\ doneTime' = clock
    /\ UNCHANGED <<clock, nextTick, tickPending, probeStart, monitor, latencyStats,
                   screen, probeLog, ticks, sigTime, sigAt, calls>>

\* select receives from sigChan: the summary is printed and main returns
HandleInterrupt ==
    /\ pc = "wait"
    /\ sigPending
    /\ sigPending' = FALSE
    /\ summary' = summary \o SummaryLines
    /\ pc' = "done"
    /\ doneTime' = clock
    /\ UNCHANGED <<clock, nextTick, tickPending, probeStart, monitor, latencyStats,
                   screen, probeLog, ticks, sigTime, sigAt, calls>>

Next ==
    \/ Advance
    \/ TickerFire
    \/ Signal
    \/ InitialCheck
    \/ TickBegin
    \/ TickEnd
    \/ HandleInterrupt

Spec == Init /\ [][Next]_vars


\* ------------------------------------------------- calls of the pure functions
\* the durations formatDuration is applied to: uptime, downtime and the
\* per-tick duration are sums of non-negative clock differences
FmtInputs == 0..(FmtMaxHours * Hour + 2 * Minute)

InitFmt ==
    /\ pc = "call"
    /\ fmtArg \in FmtInputs
    /\ fmtRet = ""
    /\ clock = 0 /\ nextTick = checkInterval /\ tickPending = FALSE
    /\ sigPending = FALSE /\ probeStart = 0 /\ lastStatus = FALSE
    /\ statusChangeTime = 0 /\ downtime = 0 /\ uptime = 0
    /\ minLatency = -1 /\ maxLatency = 0 /\ totalLatency = 0 /\ latencyCount = 0
    /\ screen = ClearedScreen /\ summary = <<>> /\ probeLog = <<>> /\ ticks = 0
    /\ sigTime = -1 /\ sigAt = "" /\ doneTime = -1 /\ chkArg = <<>> /\ chkRet = <<>>

CallFormatDuration ==
    /\ pc = "call"
    /\ fmtRet' = formatDuration(fmtArg)
    /\ pc' = "returned"
    /\ UNCHANGED <<clock, nextTick, tickPending, sigPending, probeStart, monitor,
                   latencyStats, screen, summary, probeLog, ticks, sigTime, sigAt,
                   doneTime, fmtArg, chkArg, chkRet>>

NextFmt == CallFormatDuration

SpecFmt == InitFmt /\ [][NextFmt]_vars

\* the requests checkConnection can see: any status code, any round-trip time
\* up to the client's timeout, at which the request is an error
AllStatusCodes == 100..599
ProbeInputs ==
    {a \in [err : BOOLEAN, statusCode : AllStatusCodes, elapsed : 0..timeout] :
        a.elapsed >= timeout => a.err}

InitProbe ==
    /\ pc = "call"
    /\ chkArg \in ProbeInputs
    /\ chkRet = <<>>
    /\ clock = 0 /\ nextTick = checkInterval /\ tickPending = FALSE
    /\ sigPending = FALSE /\ probeStart = 0 /\ lastStatus = FALSE
    /\ statusChangeTime = 0 /\ downtime = 0 /\ uptime = 0
    /\ minLatency = -1 /\ maxLatency = 0 /\ totalLatency = 0 /\ latencyCount = 0
    /\ screen = ClearedScreen /\ summary = <<>> /\ probeLog = <<>> /\ ticks = 0
    /\ sigTime = -1 /\ sigAt = "" /\ doneTime = -1 /\ fmtArg = 0 /\ fmtRet = ""

CallCheckConnection ==
    /\ pc = "call"
    /\ chkRet' = checkConnection(chkArg.err, chkArg.statusCode, chkArg.elapsed)
    /\ pc' = "returned"
    /\ UNCHANGED <<clock, nextTick, tickPending, sigPending, probeStart, monitor,
                   latencyStats, screen, summary, probeLog, ticks, sigTime, sigAt,
                   doneTime, fmtArg, fmtRet, chkArg>>

NextProbe == CallCheckConnection

SpecProbe == InitProbe /\ [][NextProbe]_vars

\* ------------------------------------------------------------------ history
Abs(x) == IF x < 0 THEN -x ELSE x

RECURSIVE SumLatency(_)
SumLatency(log) ==
    IF log = <<>> THEN 0 ELSE log[1].latency + SumLatency(Tail(log))

\* the latency samples that count: reachable probes with a positive latency
IsSample(e) == e.reachable /\ e.latency > 0
Recorded == SelectSeq(probeLog, IsSample)

\* the moment statusChangeTime was seeded after the initial probe
Started == Len(probeLog) >= 1
StartTime == probeLog[1].now

\* entries 2.. of probeLog are the ticks
TickIndexes == 2..Len(probeLog)
TickDuration(i) == probeLog[i].now - probeLog[i - 1].now
ReachableTicks == {i \in TickIndexes : probeLog[i].reachable}
FixedInterval == \A i \in TickIndexes : TickDuration(i) = checkInterval

\* a probe (initial or of a tick) completes in this step
ProbeStep == Len(probeLog') = Len(probeLog) + 1
\* a tick's probe completes in this step
TickStep == ProbeStep /\ pc = "probe"
LastProbe == probeLog[Len(probeLog)]

\* ticks the ticker dropped because ticker.C was full
TicksFired == (nextTick \div checkInterval) - 1
TicksDropped == TicksFired - ticks - (IF tickPending THEN 1 ELSE 0)

\* -------------------------------------------------------------------- claims

\* C1: the uptime and downtime totals of the interrupt summary add up to the
\* time elapsed from start (statusChangeTime seeded after the initial probe)
\* to the handling of the interrupt, up to rounding to one second.
C1_TotalsCoverElapsed ==
    pc = "done" =>
        Abs((DurationRound(uptime, Second) + DurationRound(downtime, Second))
            - (doneTime - StartTime)) <= Second

\* C2: once a latency sample has been recorded, minLatency <= every recorded
\* sample <= maxLatency, totalLatency is the sum of the samples, latencyCount
\* their number, and the summary's average is totalLatency / latencyCount
\* (integer division).
C2_LatencyAggregates ==
    (Started /\ Len(Recorded) > 0) =>
        /\ \A i \in 1..Len(Recorded) :
              /\ minLatency <= Recorded[i].latency
              /\ Recorded[i].latency <= maxLatency
        /\ totalLatency = SumLatency(Recorded)
        /\ latencyCount = Len(Recorded)
        /\ pc = "done" =>
              /\ Len(summary) = 6
              /\ summary[6].label = "Avg latency"
              /\ summary[6].value * Len(Recorded) <= SumLatency(Recorded)
              /\ SumLatency(Recorded) < (summary[6].value + 1) * Len(Recorded)

C2_Witness ==
    /\ pc = "done"
    /\ latencyCount >= 2
    /\ minLatency < maxLatency
    /\ Rem(totalLatency, latencyCount) # 0
    /\ \E i \in 1..Len(probeLog) : ~IsSample(probeLog[i])

\* C3: checkConnection returns reachable = TRUE exactly when the response came
\* without error and its status code s has 200 <= s < 300; 200 is reachable,
\* 404 and an error (timeout, connection error) are not.
C3_ReachableIff2xx ==
    pc = "returned" =>
        /\ chkRet[1] = (~chkArg.err /\ chkArg.statusCode \in 200..299)
        /\ (~chkArg.err /\ chkArg.statusCode = 200) => chkRet[1] = TRUE
        /\ (~chkArg.err /\ chkArg.statusCode = 404) => chkRet[1] = FALSE
        /\ chkArg.err => chkRet[1] = FALSE

C3_Witness ==
    /\ pc = "returned"
    /\ ~chkArg.err
    /\ chkArg.statusCode = 299
    /\ chkArg.elapsed > 0
    /\ chkRet[1] = TRUE

\* C4: a tick adds the elapsed time (now - statusChangeTime) to uptime when its
\* own probe is reachable and to downtime otherwise; exactly one of the two
\* accumulators receives it (and changes, the elapsed time being positive), the
\* other keeps its value, whatever the previous status was; so after n ticks at
\* a fixed interval T, k of them reachable, uptime = k*T and downtime = (n-k)*T.
C4_Scripted ==
    FixedInterval =>
        /\ uptime = Cardinality(ReachableTicks) * checkInterval
        /\ downtime = (Cardinality(TickIndexes) - Cardinality(ReachableTicks))
                        * checkInterval

C4_AttributionToCurrentStatus ==
    [][TickStep =>
        LET e == probeLog'[Len(probeLog')]
            elapsed == e.now - statusChangeTime
        IN /\ e.reachable => (uptime' = uptime + elapsed /\ downtime' = downtime)
           /\ ~e.reachable => (downtime' = downtime + elapsed /\ uptime' = uptime)
           /\ elapsed > 0 => ((uptime' # uptime) # (downtime' # downtime))
           /\ C4_Scripted']_vars

C4_Witness ==
    /\ Len(probeLog) >= 3
    /\ FixedInterval
    /\ probeLog[2].reachable # probeLog[1].reachable
    /\ probeLog[3].reachable # probeLog[2].reachable
    /\ uptime = checkInterval
    /\ downtime = checkInterval

\* C5: once the interrupt signal has arrived at a wait point of the loop, the
\* program has terminated before more than one tick period has gone by.
C5_InterruptWithinOneTick ==
    (sigAt = "wait" /\ pc # "done") => clock - sigTime <= checkInterval

\* C6: formatDuration rounds to whole seconds and prints hours, minutes and
\* seconds h, m, s with h*3600 + m*60 + s the rounded value, 0 <= m < 60,
\* 0 <= s < 60, without the hour field when h = 0 and without hour and minute
\* fields when h = m = 0; 0s gives "0s", 65s "1m 5s", 3661s "1h 1m 1s".
C6_FormatDuration ==
    pc = "returned" =>
        /\ \E q \in (fmtArg \div Second)..(fmtArg \div Second + 1),
                 h \in 0..FmtMaxHours, m \in 0..59 :
              LET s == q - h * 3600 - m * 60 IN
              /\ 2 * q * Second - Second <= 2 * fmtArg
              /\ 2 * fmtArg < 2 * q * Second + Second
              /\ s \in 0..59
              /\ fmtRet = IF h > 0
                          THEN ToString(h) \o "h " \o ToString(m) \o "m "
                                \o ToString(s) \o "s"
                          ELSE IF m > 0
                               THEN ToString(m) \o "m " \o ToString(s) \o "s"
                               ELSE ToString(s) \o "s"
        /\ fmtArg = 0 => fmtRet = "0s"
        /\ fmtArg = 65 * Second => fmtRet = "1m 5s"
        /\ fmtArg = 3661 * Second => fmtRet = "1h 1m 1s"

C6_Witness ==
    /\ pc = "returned"
    /\ fmtArg = 3661 * Second + (Second \div 2)
    /\ fmtRet = "1h 1m 2s"

\* C7: a failed probe neither ends the loop nor is retried: each receive from
\* the ticker issues one probe, its completion (failed or not) is one log entry
\* and leads back to the select, a failed one is shown as DISCONNECTED, and the
\* only step into the terminated state is the handling of the interrupt.
C7_FailureNeverTerminates ==
    [][/\ TickStep =>
            /\ pc' = "wait"
            /\ Len(probeLog') = ticks' + 1
            /\ ~probeLog'[Len(probeLog')].reachable =>
                    screen'.row4.status = "DISCONNECTED"
       /\ ticks' # ticks => (ticks' = ticks + 1 /\ pc = "wait" /\ pc' = "probe")
       /\ (pc' = "probe" /\ pc # "probe") => ticks' = ticks + 1
       /\ (pc' = "done" /\ pc # "done") =>
            (pc = "wait" /\ sigPending /\ Len(summary') > Len(summary))]_vars

C7_Witness ==
    /\ pc = "wait"
    /\ Len(probeLog) >= 3
    /\ ~probeLog[2].reachable
    /\ probeLog[2].latency = 0
    /\ ~probeLog[3].reachable
    /\ probeLog[3].latency > 0
    /\ screen.row4.status = "DISCONNECTED"
    /\ sigTime = -1

\* C8: the latency aggregates change only in a step that completes a probe
\* which was reachable and had a latency > 0; a probe (initial or of a tick)
\* that is unreachable or has no positive latency leaves all four unchanged.
C8_OnlyPositiveReachableSamples ==
    [][latencyStats' # latencyStats =>
          /\ ProbeStep
          /\ probeLog'[Len(probeLog')].reachable
          /\ probeLog'[Len(probeLog')].latency > 0]_vars

C8_Witness ==
    /\ Len(probeLog) >= 3
    /\ IsSample(probeLog[1])
    /\ ~probeLog[2].reachable /\ probeLog[2].latency > 0
    /\ probeLog[3].reachable /\ probeLog[3].latency = 0
    /\ latencyCount = 1
    /\ totalLatency = probeLog[1].latency

\* C9: uptime and downtime never decrease (the clock's readings are
\* non-decreasing).
C9_Monotonic ==
    [][uptime' >= uptime /\ downtime' >= downtime]_vars

C9_Witness ==
    /\ Len(probeLog) >= 3
    /\ uptime > 0
    /\ downtime > 0

\* C10: after startup, and so after the accounting of every tick, uptime +
\* downtime = statusChangeTime - start, also when ticks were dropped or delayed
\* by a probe longer than the interval.
C10_Telescopes ==
    Started => uptime + downtime = statusChangeTime - StartTime

C10_Witness ==
    /\ pc = "wait"
    /\ Len(probeLog) >= 3
    /\ TicksDropped >= 1
    /\ uptime > 0
    /\ downtime > 0

\* C11: every tick sets statusChangeTime to its `now`, whether or not the
\* status differs from the previous tick's, and after startup no other step
\* modifies it.
C11_StatusChangeTimeEveryTick ==
    [][/\ TickStep =>
            /\ statusChangeTime' = probeLog'[Len(probeLog')].now
            /\ statusChangeTime' = clock
       /\ (Started /\ statusChangeTime' # statusChangeTime) => TickStep]_vars

C11_Witness ==
    /\ Len(probeLog) >= 3
    /\ probeLog[3].reachable = probeLog[2].reachable
    /\ probeLog[2].reachable = probeLog[1].reachable
    /\ probeLog[3].now > probeLog[2].now
    /\ statusChangeTime = probeLog[3].now

\* C12: whenever checkConnection classifies the probe as unreachable, the
\* latency it returns is zero, whatever the cause (error, timeout, non-2xx).
C12_UnreachableLatencyZero ==
    (pc = "returned" /\ ~chkRet[1]) => chkRet[2] = 0

\* requests sent and not yet completed (the initial one is sent at startup)
InFlight == (ticks + 1) - Len(probeLog)

\* C13: at most one probe is in flight; the loop is either waiting in the
\* select (no probe in flight) or executing one probe; a tick that fires while
\* a probe is executing starts no second probe.
C13_OneProbeAtATime ==
    [][/\ InFlight \in {0, 1}
       /\ InFlight' \in {0, 1}
       /\ (InFlight = 1) = (pc \in {"init", "probe"})
       /\ (InFlight = 0) = (pc \in {"wait", "done"})
       /\ pc \in {"init", "probe"} => (ticks' = ticks /\ probeStart' = probeStart)]_vars

C13_Witness ==
    /\ pc = "probe"
    /\ tickPending
    /\ clock > probeStart
    /\ InFlight = 1
    /\ Len(probeLog) >= 2

\* C14: one probe is performed before the loop is entered and statusChangeTime
\* is seeded when it completes; a tick then probes, accounts and displays in
\* that order (the display shows the probe's status and the accounted elapsed
\* time), once per tick received, and no other step changes the monitor state
\* (uptime, downtime, statusChangeTime, lastStatus, latency aggregates).
C14_OncePerTick ==
    [][/\ (pc = "init" /\ pc' # "init") =>
            /\ pc' = "wait"
            /\ Len(probeLog') = 1
            /\ ticks' = 0
            /\ statusChangeTime' = clock
       /\ (monitor' # monitor \/ latencyStats' # latencyStats) =>
            (ProbeStep /\ pc \in {"init", "probe"})
       /\ TickStep =>
            LET e == probeLog'[Len(probeLog')]
                elapsed == e.now - statusChangeTime
            IN /\ Len(probeLog') = ticks + 1
               /\ ticks' = ticks
               /\ e.now = clock
               /\ uptime' + downtime' = uptime + downtime + elapsed
               /\ lastStatus' = e.reachable
               /\ screen'.row4.status =
                     (IF e.reachable THEN "CONNECTED" ELSE "DISCONNECTED")
               /\ screen'.row4.duration =
                     (IF elapsed > 0 THEN formatDuration(elapsed) ELSE "")
               /\ e.reachable => screen'.row6 = [shown |-> TRUE, latency |-> e.latency]]_vars

C14_Witness ==
    /\ pc = "done"
    /\ Len(probeLog) = 3
    /\ ticks = 2
    /\ probeLog[3].reachable
    /\ ~probeLog[2].reachable
    /\ doneTime > statusChangeTime
    /\ screen.row4.status = "CONNECTED"
    /\ screen.row4.duration # ""

SummaryLabels == {summary[i].label : i \in 1..Len(summary)}

\* C15: the interrupt summary always has the total uptime and total downtime
\* lines, and has the min, max and average latency lines exactly when
\* latencyCount > 0, so the average is never a division by zero.
C15_SummaryLines ==
    pc = "done" =>
        /\ Len(summary) >= 3
        /\ summary[2].label = "Total uptime"
        /\ summary[2].value = formatDuration(uptime)
        /\ summary[3].label = "Total downtime"
        /\ summary[3].value = formatDuration(downtime)
        /\ ({"Min latency", "Max latency", "Avg latency"} \subseteq SummaryLabels)
              = (latencyCount > 0)
        /\ ({"Min latency", "Max latency", "Avg latency"} \cap SummaryLabels = {})
              = (latencyCount = 0)
        /\ latencyCount > 0 =>
              /\ Len(summary) = 6
              /\ summary[4] = [label |-> "Min latency", value |-> minLatency]
              /\ summary[5] = [label |-> "Max latency", value |-> maxLatency]
              /\ summary[6].label = "Avg latency"
        /\ latencyCount = 0 => Len(summary) = 3

C15_Witness ==
    /\ pc = "done"
    /\ latencyCount = 0
    /\ Len(summary) = 3
    /\ Len(probeLog) >= 3
    /\ \E i \in 1..Len(probeLog) : probeLog[i].latency > 0
    /\ \E i \in 1..Len(probeLog) : probeLog[i].reachable

\* first entry of the run of equal statuses that ends with the last probe
RunStart ==
    CHOOSE j \in 1..Len(probeLog) :
        /\ \A i \in j..Len(probeLog) : probeLog[i].reachable = LastProbe.reachable
        /\ (j = 1 \/ probeLog[j - 1].reachable # LastProbe.reachable)
\* the clock reading from which the displayed status has held without a break
\* (the elapsed time before a probe counts for that probe's status)
InStateSince == probeLog[IF RunStart > 1 THEN RunStart - 1 ELSE 1].now

\* C16: after a tick, the duration on the status line is the time for which the
\* connection has been in the displayed status without interruption, over all
\* the consecutive ticks with that status (stated for the runs in which the
\* clock moved between any two ticks).
C16_DurationInState ==
    (pc = "wait" /\ Len(probeLog) >= 2 /\ \A i \in TickIndexes : TickDuration(i) > 0) =>
        screen.row4.duration =
            (IF LastProbe.now - InStateSince > 0
             THEN formatDuration(LastProbe.now - InStateSince) ELSE "")

\* C17: whenever the status line reads DISCONNECTED, the latency row of the
\* display shows no latency.
C17_NoLatencyWhenDisconnected ==
    screen.row4.status = "DISCONNECTED" => ~screen.row6.shown

\* C18: the summary is printed once, by the step that handles the interrupt,
\* and from then on nothing happens: no probe, no accounting, no display, also
\* with a tick pending in ticker.C.
C18_TerminatedIsAbsorbing ==
    [][/\ summary' # summary =>
            /\ summary = <<>>
            /\ pc = "wait" /\ sigPending
            /\ pc' = "done"
            /\ Cardinality({i \in 1..Len(summary') :
                              summary'[i].label = "Total uptime"}) = 1
            /\ Cardinality({i \in 1..Len(summary') :
                              summary'[i].label = "Exiting Connection Monitor"}) = 1
            /\ UNCHANGED <<monitor, latencyStats, screen, probeLog, ticks>>
       /\ summary # <<>> =>
            /\ pc = "done"
            /\ UNCHANGED <<pc, monitor, latencyStats, screen, probeLog, ticks,
                           summary, probeStart>>]_vars

C18_Witness ==
    /\ pc = "done"
    /\ tickPending
    /\ doneTime = sigTime
    /\ Len(summary) = 6
    /\ Len(probeLog) >= 2

\* C19: minLatency is the sentinel -1 exactly when latencyCount = 0; the first
\* recorded sample, from the initial probe or from a tick, becomes minLatency;
\* from then on 0 < minLatency <= maxLatency.
C19_MinLatencySentinel ==
    pc \in {"init", "wait", "probe", "done"} =>
        /\ (minLatency = -1) = (latencyCount = 0)
        /\ (latencyCount = 0) = (Len(Recorded) = 0)
        /\ Len(Recorded) = 1 => minLatency = Recorded[1].latency
        /\ latencyCount > 0 =>
              /\ 0 < minLatency
              /\ minLatency <= maxLatency
              /\ minLatency <= Recorded[1].latency

C19_Witness ==
    /\ Len(probeLog) >= 3
    /\ ~IsSample(probeLog[1])
    /\ IsSample(probeLog[2])
    /\ IsSample(probeLog[3])
    /\ probeLog[3].latency > probeLog[2].latency
    /\ minLatency = probeLog[2].latency
    /\ maxLatency = probeLog[3].latency

=============================================================================
